---- MODULE Spec2Model ----
(***************************************************************************)
(* A model of the upload core of PSYTROPS/graphics:                        *)
(*   - Arena          (src/src/transfer/arena.rs)                          *)
(*   - Transaction    (src/src/transfer/transaction.rs)                    *)
(*   - Transfer       (src/src/transfer.rs)                                *)
(*   - Renderer::draw (src/src/lib.rs), the frame pipeline                 *)
(* together with the part of the device they talk to: the transfer queue,  *)
(* the graphics queue, timeline semaphores, fences, device buffers and     *)
(* images.  Host memory is modelled byte by byte; a byte that was never    *)
(* written is Uninit, a value no payload contains.                         *)
(***************************************************************************)
EXTENDS Integers, Sequences, FiniteSets, TLC

VARIABLES
    arena,            \* Transaction.arena: [data, size, layout_size]
    transaction,      \* the Transaction's families and descriptor lists
    staging,          \* Transfer.staging[f]: [size, mem]
    command_buffers,  \* Transfer.command_buffers[f]: [state, cmds]
    semaphores,       \* value of the timeline semaphore Transfer.semaphores[f]
    counts,           \* Transfer.counts[f]
    queue,            \* transfer queue: submissions queued and not yet executed
    pc,               \* "idle", or "submit" while the CPU is inside Transfer::submit
    cur,              \* the frame argument of the running / last submit
    result,           \* what the last submit returned
    buffers,          \* device memory of the destination buffers
    images,           \* destination images: [layout, texels]
    hist,             \* history: what the caller did (used only by the properties)
    current_frame,    \* Renderer.current_frame
    frames,           \* per frame slot: fence, command buffer, pending signals of
                      \* semaphores[0] (acquired) and semaphores[1] (present), and the
                      \* draw call that last wrote the slot's transform region
    swapchain,        \* the current swapchain: [id]
    gqueue,           \* graphics queue: submissions queued and not yet executed
    dpc,              \* "idle", or "draw" while the CPU is inside Renderer::draw
    dloc,             \* the last draw: its slot, its result, the swapchain it used,
                      \* whether it recorded while the slot's earlier submission
                      \* was still on the graphics queue, and what its last
                      \* acquisition returned
    dhist,            \* history of the frame pipeline (used only by the properties)
    alloc,            \* the last call of Base::allocate: its arguments and its result
    objects,          \* the device objects the teardown paths own: "live" or "destroyed"
    tpc               \* the teardown that is running: its path, position and status

txnVars      == <<arena, transaction>>
transferVars == <<staging, command_buffers, semaphores, counts, queue>>
callVars     == <<pc, cur, result>>
deviceVars   == <<buffers, images>>
drawVars     == <<current_frame, frames, swapchain, gqueue, dpc, dloc, dhist>>
resourceVars == <<alloc, objects, tpc>>
vars == <<arena, transaction, staging, command_buffers, semaphores, counts, queue,
          pc, cur, result, buffers, images, hist,
          current_frame, frames, swapchain, gqueue, dpc, dloc, dhist,
          alloc, objects, tpc>>

----------------------------------------------------------------------------
(* Program constants *)

\* transfer/arena.rs: const ALIGNMENT
ALIGNMENT == 8
\* number of frame slots (lib.rs: Framebuffer::new(base, extent, 2))
FRAME_COUNT == 2
\* transfer.rs: Staging::new(base.clone(), 64)
INITIAL_STAGING == 64

Frames == 0 .. (FRAME_COUNT - 1)

\* a byte of host memory that was allocated and never written
Uninit == 0 - 1

(* Bounds of the model *)

\* writes accumulated in a Transaction between two clears, in Spec and SpecUpload
MaxWrites == 2
\* writes accumulated in a Transaction between two clears, in SpecTxn
MaxAppends == 3
\* calls of Transaction::clear in a run
MaxClears == 1
\* calls of Transfer::submit in a run of Spec
MaxSubmits == 3
\* calls of Transfer::submit in a run of SpecUpload
MaxUploads == 2
\* calls of Renderer::draw in a run of SpecFrame
MaxDraws == 4
\* calls of Transfer::submit in a run of SpecFrame
MaxFrameSubmits == 1
\* acquisitions in one draw that report the swapchain as suboptimal
MaxRetries == 1
\* device calls that fail in a run (a timeout is not one of them: it is decided
\* by the state of the semaphore)
MaxFailures == 1

----------------------------------------------------------------------------
(* Arena: src/src/transfer/arena.rs *)

\* a faulty rounding: the size is left as it is
RoundUpNone(n) == n

\* (n + ALIGNMENT - 1) & !(ALIGNMENT - 1)
RoundUp(n) == ((n + ALIGNMENT - 1) \div ALIGNMENT) * ALIGNMENT

ArenaNew(size) ==
    [data |-> [i \in 1 .. size |-> Uninit], size |-> 0, layout_size |-> size]

\* a faulty extend: the reallocation does not carry the old bytes over
ArenaExtendFresh(a, src) ==
    LET size    == RoundUp(Len(src))
        offset  == a.size
        newsize == offset + size
        grown   == IF newsize > a.layout_size
                   THEN [i \in 1 .. newsize |-> Uninit]
                   ELSE a.data
    IN  [arena  |-> [data |-> [i \in 1 .. Len(grown) |->
                                 IF i > offset /\ i <= offset + Len(src)
                                 THEN src[i - offset] ELSE grown[i]],
                     size |-> newsize,
                     layout_size |-> Len(grown)],
         offset |-> offset]

\* a faulty extend: the block grows to twice the size needed
ArenaExtendDoubling(a, src) ==
    LET size    == RoundUp(Len(src))
        offset  == a.size
        newsize == offset + size
        grown   == IF newsize > a.layout_size
                   THEN a.data \o [i \in 1 .. (2 * newsize - a.layout_size) |-> Uninit]
                   ELSE a.data
    IN  [arena  |-> [data |-> [i \in 1 .. Len(grown) |->
                                 IF i > offset /\ i <= offset + Len(src)
                                 THEN src[i - offset] ELSE grown[i]],
                     size |-> newsize,
                     layout_size |-> Len(grown)],
         offset |-> offset]

\* Arena::extend: the arena after the call and the offset the call returns
ArenaExtend(a, src) ==
    LET size    == RoundUp(Len(src))
        offset  == a.size
        newsize == offset + size
        \* realloc keeps the old bytes; the new tail is not initialised
        grown   == IF newsize > a.layout_size
                   THEN a.data \o [i \in 1 .. (newsize - a.layout_size) |-> Uninit]
                   ELSE a.data
    IN  [arena  |-> [data |-> [i \in 1 .. Len(grown) |->
                                 IF i > offset /\ i <= offset + Len(src)
                                 THEN src[i - offset] ELSE grown[i]],
                     size |-> newsize,
                     layout_size |-> Len(grown)],
         offset |-> offset]

\* Arena::size returns layout.size(), the capacity
ArenaSize(a) == a.layout_size

\* a faulty clear: the block is released
ArenaClearReleases(a) == [data |-> << >>, size |-> 0, layout_size |-> 0]

\* Arena::clear
ArenaClear(a) == [a EXCEPT !.size = 0]

----------------------------------------------------------------------------
(* Transaction: src/src/transfer/transaction.rs *)

TransactionNew(src_queue_family, dst_queue_family) ==
    [src_queue_family     |-> src_queue_family,
     dst_queue_family     |-> dst_queue_family,
     buffer_transfers     |-> << >>,
     image_transfers      |-> << >>,
     regions              |-> << >>,
     start_image_barriers |-> << >>,
     end_image_barriers   |-> << >>]

\* the barrier pushed to start_image_barriers by image_write
StartBarrier(t, dst, subresource_range) ==
    [old_layout             |-> "UNDEFINED",
     new_layout             |-> "TRANSFER_DST_OPTIMAL",
     src_queue_family_index |-> t.src_queue_family,
     dst_queue_family_index |-> t.src_queue_family,
     image                  |-> dst,
     subresource_range      |-> subresource_range]

\* a faulty end-barrier: it keeps the image in the transfer family
EndBarrierSameFamily(t, dst, subresource_range, layout) ==
    [old_layout             |-> "TRANSFER_DST_OPTIMAL",
     new_layout             |-> layout,
     src_queue_family_index |-> t.src_queue_family,
     dst_queue_family_index |-> t.src_queue_family,
     image                  |-> dst,
     subresource_range      |-> subresource_range]

\* the barrier pushed to end_image_barriers by image_write
EndBarrier(t, dst, subresource_range, layout) ==
    [old_layout             |-> "TRANSFER_DST_OPTIMAL",
     new_layout             |-> layout,
     src_queue_family_index |-> t.src_queue_family,
     dst_queue_family_index |-> t.dst_queue_family,
     image                  |-> dst,
     subresource_range      |-> subresource_range]

\* Transaction::buffer_write, the descriptor lists (src_offset is what extend returned)
TxnBufferWrite(t, src_offset, src, dst, dst_offset) ==
    [t EXCEPT !.buffer_transfers =
        Append(@, [src_offset |-> src_offset, size |-> Len(src),
                   dst |-> dst, dst_offset |-> dst_offset])]

\* a faulty image_write: the regions are pushed as supplied
OffsetRegionsNone(regions, src_offset) == regions

\* the regions pushed by image_write: each buffer_offset moved by src_offset
OffsetRegions(regions, src_offset) ==
    [i \in 1 .. Len(regions) |->
        [regions[i] EXCEPT !.buffer_offset = @ + src_offset]]

\* Transaction::image_write, the descriptor lists
TxnImageWrite(t, src_offset, dst, subresource_range, regions, layout) ==
    [t EXCEPT
        !.regions = @ \o OffsetRegions(regions, src_offset),
        !.image_transfers =
            Append(@, [dst |-> dst, subresource_range |-> subresource_range,
                       region_offset |-> Len(t.regions),
                       region_count |-> Len(regions), layout |-> layout]),
        !.start_image_barriers = Append(@, StartBarrier(t, dst, subresource_range)),
        !.end_image_barriers =
            Append(@, EndBarrier(t, dst, subresource_range, layout))]

\* a faulty clear: it forgets the end-barriers
TxnClearKeepsBarriers(t) ==
    [t EXCEPT !.buffer_transfers = << >>, !.image_transfers = << >>,
              !.start_image_barriers = << >>, !.regions = << >>]

\* Transaction::clear, the descriptor lists
TxnClear(t) ==
    [t EXCEPT !.buffer_transfers = << >>, !.image_transfers = << >>,
              !.start_image_barriers = << >>, !.end_image_barriers = << >>,
              !.regions = << >>]

----------------------------------------------------------------------------
(* Transfer: src/src/transfer.rs *)

\* Staging::new: a fresh host-visible block of `size` bytes, mapped
StagingNew(size) == [size |-> size, mem |-> [i \in 1 .. size |-> Uninit]]

\* vkWaitSemaphores on the slot's timeline semaphore with the slot's counter:
\* satisfied once the semaphore has reached that value
WaitSatisfied(semaphore, count) == semaphore >= count

\* a faulty submit: the slot's staging block is never replaced
NeedsNewStagingNever(st, a) == FALSE

\* submit replaces the slot's staging block when it is smaller than arena.size()
NeedsNewStaging(st, a) == st.size < ArenaSize(a)

\* a faulty submit: the Arena is not copied, the staging block is left as it was
StagingUnwritten(st, a) == st

\* copy_to_nonoverlapping(arena.ptr(), staging.ptr, arena.size())
CopyToStaging(st, a) ==
    [st EXCEPT !.mem = [i \in 1 .. Len(st.mem) |->
                           IF i <= ArenaSize(a) THEN a.data[i] ELSE st.mem[i]]]

\* the commands submit records for a Transaction, in recording order
CopyBufferCmds(t) ==
    [i \in 1 .. Len(t.buffer_transfers) |->
        [op         |-> "copy_buffer",
         src_offset |-> t.buffer_transfers[i].src_offset,
         dst_offset |-> t.buffer_transfers[i].dst_offset,
         size       |-> t.buffer_transfers[i].size,
         dst        |-> t.buffer_transfers[i].dst]]

StartBarrierCmds(t) ==
    IF Len(t.start_image_barriers) > 0
    THEN << [op |-> "pipeline_barrier", barriers |-> t.start_image_barriers] >>
    ELSE << >>

CopyImageCmds(t) ==
    [i \in 1 .. Len(t.image_transfers) |->
        [op      |-> "copy_buffer_to_image",
         dst     |-> t.image_transfers[i].dst,
         regions |-> SubSeq(t.regions,
                            t.image_transfers[i].region_offset + 1,
                            t.image_transfers[i].region_offset
                                + t.image_transfers[i].region_count)]]

EndBarrierCmds(t) ==
    IF Len(t.end_image_barriers) > 0
    THEN << [op |-> "pipeline_barrier", barriers |-> t.end_image_barriers] >>
    ELSE << >>

RecordCommands(t) ==
    CopyBufferCmds(t) \o StartBarrierCmds(t) \o CopyImageCmds(t) \o EndBarrierCmds(t)

\* the value submit signals and returns: counts[frame] += 1
\* a faulty counter step
NextCountSkips(count) == count + 2

NextCount(count) == count + 1

\* a faulty counter update: one counter shared by all slots
CountedAll(cs, frame) == [g \in DOMAIN cs |-> NextCount(cs[g])]

\* self.counts[frame] += 1
Counted(cs, frame) == [cs EXCEPT ![frame] = NextCount(cs[frame])]

----------------------------------------------------------------------------
(* The device: what executing a recorded transfer command buffer does *)

\* a byte of a staging block as the device reads it
StagingByte(mem, i) == IF i >= 1 /\ i <= Len(mem) THEN mem[i] ELSE Uninit

ExecCopyBuffer(c, mem, bufs) ==
    [bufs EXCEPT ![c.dst] =
        [j \in 1 .. Len(bufs[c.dst]) |->
            IF j > c.dst_offset /\ j <= c.dst_offset + c.size
            THEN StagingByte(mem, c.src_offset + (j - c.dst_offset))
            ELSE bufs[c.dst][j]]]

RECURSIVE ExecBarriers(_, _)
ExecBarriers(bs, imgs) ==
    IF bs = << >> THEN imgs
    ELSE ExecBarriers(Tail(bs),
            [imgs EXCEPT ![Head(bs).image].layout = Head(bs).new_layout])

RECURSIVE ExecRegions(_, _, _)
ExecRegions(rs, mem, texels) ==
    IF rs = << >> THEN texels
    ELSE ExecRegions(Tail(rs), mem,
            [j \in 1 .. Len(texels) |->
                IF j > Head(rs).image_offset
                   /\ j <= Head(rs).image_offset + Head(rs).extent
                THEN StagingByte(mem, Head(rs).buffer_offset
                                       + (j - Head(rs).image_offset))
                ELSE texels[j]])

\* device state <<buffers, images>> after the commands ran against staging memory mem
RECURSIVE ExecCmds(_, _, _, _)
ExecCmds(cmds, mem, bufs, imgs) ==
    IF cmds = << >> THEN [buffers |-> bufs, images |-> imgs]
    ELSE LET c == Head(cmds) IN
         CASE c.op = "copy_buffer" ->
                ExecCmds(Tail(cmds), mem, ExecCopyBuffer(c, mem, bufs), imgs)
           [] c.op = "pipeline_barrier" ->
                ExecCmds(Tail(cmds), mem, bufs, ExecBarriers(c.barriers, imgs))
           [] c.op = "copy_buffer_to_image" ->
                ExecCmds(Tail(cmds), mem, bufs,
                    [imgs EXCEPT ![c.dst].texels =
                        ExecRegions(c.regions, mem, imgs[c.dst].texels)])

----------------------------------------------------------------------------
(* Inputs of the model *)

\* a payload of len bytes; the bytes of two payloads with different tags differ
Payload(tag, len) == [i \in 1 .. len |-> tag * 100 + i]

\* what callers pass to buffer_write
BufferPayloads == {Payload(1, 3), Payload(2, 8)}
BufferNames    == {"vertices"}
BufferSize     == 16
DstOffsets     == {0, 8}

\* what callers pass to image_write
ImageNames   == {"texture", "lookup"}
ImageSize    == 60
ImagePayload == Payload(3, ImageSize)
SmallPayload == Payload(4, 12)
\* copy regions: one for the whole payload, or one for each half of it
OneRegion(len)  == << [buffer_offset |-> 0, image_offset |-> 0, extent |-> len] >>
TwoRegions(len) ==
    << [buffer_offset |-> 0, image_offset |-> 0, extent |-> len \div 2],
       [buffer_offset |-> len \div 2, image_offset |-> len \div 2,
        extent |-> len - len \div 2] >>
FinalLayouts == {"SHADER_READ_ONLY_OPTIMAL", "GENERAL"}
ColorRange   == [aspect_mask |-> "COLOR", base_mip_level |-> 0, level_count |-> 1]

\* queue families a Transaction is constructed with: <<transfer, consumer>>
QueueFamilyPairs == {<<1, 0>>, <<0, 0>>}

\* results of Transfer::submit
NoResult   == [ok |-> FALSE, err |-> "NONE", semaphore |-> 0 - 1, value |-> 0]
Ok(f, v)   == [ok |-> TRUE, err |-> "SUCCESS", semaphore |-> f, value |-> v]
Err(e)     == [ok |-> FALSE, err |-> e, semaphore |-> 0 - 1, value |-> 0]

\* the caller keeps to the device's valid usage: a buffer write lies inside its
\* buffer and does not overlap another write of the same Transaction, and an
\* image is written once per Transaction
BufferWriteValid(t, src, dst, dst_offset) ==
    /\ dst_offset + Len(src) <= BufferSize
    /\ \A i \in 1 .. Len(t.buffer_transfers) :
          LET b == t.buffer_transfers[i] IN
          \/ b.dst # dst
          \/ b.dst_offset + b.size <= dst_offset
          \/ dst_offset + Len(src) <= b.dst_offset

ImageWriteValid(t, dst) ==
    \A i \in 1 .. Len(t.image_transfers) : t.image_transfers[i].dst # dst

----------------------------------------------------------------------------
(* Base::allocate: src/src/base.rs.  A memory_type_bits mask is the set of   *)
(* the indices of its set bits; a property mask is the set of its flags.     *)

\* u32::MAX: every bit set
AllTypeBits == 0 .. 31

\* a faulty alignment step: the offset is left where the last resource ended
AlignUpNone(size, alignment) == size

\* if size % alignment != 0 { size = (size / alignment + 1) * alignment }
AlignUp(size, alignment) ==
    IF size % alignment # 0 THEN (size \div alignment + 1) * alignment ELSE size

\* a faulty loop: every resource is placed at the start of the block
PlaceAtStart(requirements, offsets, size, supported) ==
    [offsets   |-> [i \in 1 .. Len(requirements) |-> 0],
     size      |-> IF requirements = << >> THEN 0
                   ELSE requirements[Len(requirements)].size,
     supported |-> supported]

\* the loop over the requirements: offsets, block size and the AND of the masks
RECURSIVE Place(_, _, _, _)
Place(requirements, offsets, size, supported) ==
    IF requirements = << >>
    THEN [offsets |-> offsets, size |-> size, supported |-> supported]
    ELSE LET reqs == Head(requirements)
             at   == AlignUp(size, reqs.alignment)
         IN  Place(Tail(requirements), Append(offsets, at), at + reqs.size,
                   supported \cap reqs.memory_type_bits)

\* a faulty search: the mask of the requirements is not looked at
FindAnyMemoryType(memory_types, properties, supported, i) ==
    IF \E j \in 1 .. Len(memory_types) : properties \subseteq memory_types[j]
    THEN (CHOOSE j \in 1 .. Len(memory_types) : properties \subseteq memory_types[j]) - 1
    ELSE 0 - 1

\* memory_types[..count].iter().enumerate().find(..), from index i on:
\* the index found, or -1
RECURSIVE FindMemoryType(_, _, _, _)
FindMemoryType(memory_types, properties, supported, i) ==
    IF i >= Len(memory_types) THEN 0 - 1
    ELSE IF properties \subseteq memory_types[i + 1] /\ i \in supported
         THEN i
         ELSE FindMemoryType(memory_types, properties, supported, i + 1)

\* the result of allocate before any call
NoAllocation == [ok |-> FALSE, err |-> "NONE", offsets |-> << >>,
                 size |-> 0, memory_type_index |-> 0 - 1, allocated |-> 0]

\* Base::allocate(requirements, properties) on a device with `memory_types`,
\* whose allocate_memory returns `device_result`
Allocate(requirements, properties, memory_types, device_result) ==
    LET placed == Place(requirements, << >>, 0, AllTypeBits)
        index  == FindMemoryType(memory_types, properties, placed.supported, 0)
    IN  IF index < 0
        THEN [NoAllocation EXCEPT !.err = "ERROR_UNKNOWN"]
        ELSE IF device_result # "SUCCESS"
        THEN [NoAllocation EXCEPT !.err = device_result]
        ELSE [ok |-> TRUE, err |-> "SUCCESS", offsets |-> placed.offsets,
              size |-> placed.size, memory_type_index |-> index, allocated |-> 1]

\* no call of allocate was made
NoAlloc == [called |-> FALSE, requirements |-> << >>, properties |-> {},
            result |-> NoAllocation]

----------------------------------------------------------------------------
(* Teardown paths.  A device object is named <<owner, index, field>>; a path  *)
(* is the sequence of its calls: "destroy" and "free" release an object,     *)
(* "unwrap" is a fallible call whose result is unwrapped, "try" a fallible   *)
(* call followed by `?`.                                                     *)

Op(kind, owner, index, field) == [kind |-> kind, object |-> <<owner, index, field>>]

\* Drop for Staging (src/src/transfer.rs)
StagingDrop(f) ==
    << Op("unmap", "staging", f, "alloc"),
       Op("destroy", "staging", f, "buffer"),
       Op("free", "staging", f, "alloc") >>

\* Drop for Transfer: the body of drop
TransferDropBody ==
    << Op("unwrap", "transfer", 0, "queue_wait_idle") >>
    \o [f \in 1 .. FRAME_COUNT |-> Op("destroy", "transfer", f - 1, "semaphore")]
    \o << Op("free", "transfer", 0, "command_buffers"),
          Op("destroy", "transfer", 0, "command_pool") >>

\* Drop for Transfer: the fields dropped after the body, in declaration order
TransferDropFields == StagingDrop(0) \o StagingDrop(1)

\* Drop for DeviceScene (src/src/device_scene.rs)
DeviceSceneDrop ==
    << Op("destroy", "scene", 0, "buffer"),
       Op("destroy", "scene", 1, "buffer"),
       Op("free", "scene", 0, "buffer_alloc"),
       Op("destroy", "scene", 0, "image_view"),
       Op("destroy", "scene", 0, "image"),
       Op("free", "scene", 0, "image_alloc") >>

\* Frame::destroy (src/src/framebuffer.rs)
FrameDestroy(f) ==
    << Op("destroy", "frame", f, "fence"),
       Op("destroy", "frame", f, "semaphore0"),
       Op("destroy", "frame", f, "semaphore1"),
       Op("free", "frame", f, "command_buffer"),
       Op("destroy", "frame", f, "framebuffer"),
       Op("destroy", "frame", f, "image_view"),
       Op("destroy", "frame", f, "image") >>

\* Framebuffer::destroy
FramebufferDestroy ==
    FrameDestroy(0) \o FrameDestroy(1)
    \o << Op("free", "framebuffer", 0, "image_allocation"),
          Op("destroy", "framebuffer", 0, "pipeline"),
          Op("destroy", "framebuffer", 0, "render_pass") >>

\* Base::staged_buffer_write, from the wait for the copy on
StagedWriteCleanup ==
    << Op("try", "staged", 0, "wait_for_fences"),
       Op("try", "staged", 0, "reset_fences"),
       Op("destroy", "staged", 0, "buffer"),
       Op("free", "staged", 0, "allocation") >>

\* Base::destroy (src/src/base.rs)
BaseDestroy ==
    << Op("unwrap", "base", 0, "get_pipeline_cache_data"),
       Op("unwrap", "base", 0, "current_exe"),
       Op("unwrap", "base", 0, "File::create"),
       Op("unwrap", "base", 0, "write_all"),
       Op("unwrap", "base", 0, "device_wait_idle"),
       Op("destroy", "base", 0, "pipeline_cache"),
       Op("destroy", "base", 0, "sampler"),
       Op("destroy", "base", 0, "descriptor_set_layout"),
       Op("destroy", "base", 0, "pipeline_layout"),
       Op("destroy", "base", 0, "transfer_fence"),
       Op("free", "base", 0, "transfer_command_buffer"),
       Op("destroy", "base", 0, "command_pool"),
       Op("destroy", "base", 0, "device"),
       Op("destroy", "base", 0, "surface"),
       Op("destroy", "base", 0, "instance") >>

TeardownPaths == {"Staging", "Transfer", "DeviceScene", "Framebuffer",
                  "staged_buffer_write", "Base"}

\* the calls of a path that run in the function's body
TeardownBody(path) ==
    CASE path = "Staging"             -> StagingDrop(0)
      [] path = "Transfer"            -> TransferDropBody
      [] path = "DeviceScene"         -> DeviceSceneDrop
      [] path = "Framebuffer"         -> FramebufferDestroy
      [] path = "staged_buffer_write" -> StagedWriteCleanup
      [] path = "Base"                -> BaseDestroy

\* the calls made by the drop of the fields, after the body
TeardownFields(path) == IF path = "Transfer" THEN TransferDropFields ELSE << >>

TeardownOps(path) == TeardownBody(path) \o TeardownFields(path)

\* the objects a path releases
Released(ops) ==
    { ops[i].object : i \in { j \in 1 .. Len(ops) : ops[j].kind \in {"destroy", "free"} } }

AllObjects == UNION { Released(TeardownOps(path)) : path \in TeardownPaths }

\* the device memory blocks, and the buffers and images bound to each
Blocks ==
    { <<"staging", f, "alloc">> : f \in Frames }
    \cup { <<"scene", 0, "buffer_alloc">>, <<"scene", 0, "image_alloc">>,
           <<"framebuffer", 0, "image_allocation">>, <<"staged", 0, "allocation">> }

BoundTo(block) ==
    CASE block[1] = "staging" -> { <<"staging", block[2], "buffer">> }
      [] block = <<"scene", 0, "buffer_alloc">> ->
            { <<"scene", 0, "buffer">>, <<"scene", 1, "buffer">> }
      [] block = <<"scene", 0, "image_alloc">> -> { <<"scene", 0, "image">> }
      [] block = <<"framebuffer", 0, "image_allocation">> ->
            { <<"frame", f, "image">> : f \in Frames }
      [] block = <<"staged", 0, "allocation">> -> { <<"staged", 0, "buffer">> }

\* what a panic does: it unwinds (the fields of the value are dropped) or aborts
PanicModes == {"unwind", "abort"}

\* a fallible call that blocks returns Ok only when the work it waits for is done
WaitDone(op, q, gq) ==
    CASE op.object[3] = "queue_wait_idle"  -> q = << >>
      [] op.object[3] = "device_wait_idle" -> q = << >> /\ gq = << >>
      [] OTHER                             -> TRUE

\* the teardown after the call at position `at` returned normally
Advanced(t) ==
    IF t.at + 1 > Len(TeardownOps(t.path))
    THEN [t EXCEPT !.at = @ + 1,
                   !.status = IF t.status = "unwinding" THEN "panicked" ELSE "done"]
    ELSE [t EXCEPT !.at = @ + 1]

\* the teardown after a fallible call returned an error
Failed(t, kind, mode) ==
    IF kind = "try" THEN [t EXCEPT !.status = "returned_err"]
    ELSE IF mode = "abort" THEN [t EXCEPT !.status = "aborted"]
    ELSE IF TeardownFields(t.path) = << >> THEN [t EXCEPT !.status = "panicked"]
    ELSE [t EXCEPT !.at = Len(TeardownBody(t.path)) + 1, !.status = "unwinding"]

----------------------------------------------------------------------------
(* Initial state *)

InitTransaction(pair) ==
    /\ arena = ArenaNew(0)
    /\ transaction = TransactionNew(pair[1], pair[2])

\* Transfer::new
InitTransfer ==
    /\ counts = [f \in Frames |-> 0]
    /\ staging = [f \in Frames |-> StagingNew(INITIAL_STAGING)]
    /\ command_buffers = [f \in Frames |-> [state |-> "initial", cmds |-> << >>]]
    /\ semaphores = [f \in Frames |-> 0]
    /\ queue = << >>
    /\ pc = "idle"
    /\ cur = 0
    /\ result = NoResult

InitDevice ==
    /\ buffers = [b \in BufferNames |-> [i \in 1 .. BufferSize |-> Uninit]]
    /\ images = [m \in ImageNames |->
                    [layout |-> "UNDEFINED",
                     texels |-> [i \in 1 .. ImageSize |-> Uninit]]]

InitHist ==
    hist = [writes |-> << >>, ok_submits |-> [f \in Frames |-> 0],
            clears |-> 0, calls |-> 0, failures |-> 0]

\* Framebuffer::new (the fence is created signalled), Swapchain::new, Renderer::new
InitDraw ==
    /\ current_frame = 0
    /\ frames = [f \in Frames |->
                    [fence          |-> TRUE,
                     command_buffer |-> "initial",
                     acquired       |-> 0,
                     present        |-> 0,
                     region         |-> 0]]
    /\ swapchain = [id |-> 0]
    /\ gqueue = << >>
    /\ dpc = "idle"
    /\ dloc = [frame |-> 0, result |-> "NONE", swapchain |-> 0, busy |-> FALSE,
               acquire |-> "NONE"]
    /\ dhist = [calls |-> 0, failures |-> 0, slots |-> << >>]

\* every object the teardown paths own is live, no teardown is running
InitObjects ==
    /\ objects = [o \in AllObjects |-> "live"]
    /\ tpc = [path |-> "none", at |-> 0, status |-> "idle"]

\* no call of allocate was made
InitResources ==
    /\ alloc = NoAlloc
    /\ InitObjects

Init ==
    /\ InitTransaction(<<1, 0>>)
    /\ InitTransfer
    /\ InitDevice
    /\ InitHist
    /\ InitDraw
    /\ InitResources

----------------------------------------------------------------------------
(* Actions: the caller fills and clears the Transaction *)

Idle == pc = "idle" /\ dpc = "idle"

\* slot f has a submitted transfer that the device has not finished
Pending(f) == \E i \in 1 .. Len(queue) : queue[i].frame = f

\* a faulty buffer_write: it also stores the bytes in the destination buffer
BufferWriteThrough(src, dst, dst_offset) ==
    /\ Idle
    /\ BufferWriteValid(transaction, src, dst, dst_offset)
    /\ LET r == ArenaExtend(arena, src) IN
       /\ arena' = r.arena
       /\ transaction' = TxnBufferWrite(transaction, r.offset, src, dst, dst_offset)
       /\ hist' = [hist EXCEPT !.writes =
                      Append(@, [kind |-> "buffer", src |-> src, offset |-> r.offset,
                                 dst |-> dst, dst_offset |-> dst_offset,
                                 regions |-> << >>, layout |-> "UNDEFINED"])]
    /\ buffers' = [buffers EXCEPT ![dst] =
                      [i \in 1 .. Len(@) |->
                          IF i > dst_offset /\ i <= dst_offset + Len(src)
                          THEN src[i - dst_offset] ELSE @[i]]]
    /\ UNCHANGED <<transferVars, callVars, images, drawVars, resourceVars>>

\* Transaction::buffer_write(src, dst, dst_offset)
BufferWrite(src, dst, dst_offset) ==
    /\ Idle
    /\ BufferWriteValid(transaction, src, dst, dst_offset)
    /\ LET r == ArenaExtend(arena, src) IN
       /\ arena' = r.arena
       /\ transaction' = TxnBufferWrite(transaction, r.offset, src, dst, dst_offset)
       /\ hist' = [hist EXCEPT !.writes =
                      Append(@, [kind |-> "buffer", src |-> src, offset |-> r.offset,
                                 dst |-> dst, dst_offset |-> dst_offset,
                                 regions |-> << >>, layout |-> "UNDEFINED"])]
    /\ UNCHANGED <<transferVars, callVars, deviceVars, drawVars, resourceVars>>

\* Transaction::image_write(src, dst, subresource_range, regions, layout)
ImageWrite(src, dst, regions, layout) ==
    /\ Idle
    /\ ImageWriteValid(transaction, dst)
    /\ LET r == ArenaExtend(arena, src) IN
       /\ arena' = r.arena
       /\ transaction' =
             TxnImageWrite(transaction, r.offset, dst, ColorRange, regions, layout)
       /\ hist' = [hist EXCEPT !.writes =
                      Append(@, [kind |-> "image", src |-> src, offset |-> r.offset,
                                 dst |-> dst, dst_offset |-> 0,
                                 regions |-> regions, layout |-> layout])]
    /\ UNCHANGED <<transferVars, callVars, deviceVars, drawVars, resourceVars>>

\* Transaction::clear()
Clear ==
    /\ Idle
    /\ arena' = ArenaClear(arena)
    /\ transaction' = TxnClear(transaction)
    /\ hist' = [hist EXCEPT !.writes = << >>, !.clears = @ + 1]
    /\ UNCHANGED <<transferVars, callVars, deviceVars, drawVars, resourceVars>>

----------------------------------------------------------------------------
(* Action: Transfer::submit(transaction, frame).  The call is one step: the   *)
(* CPU thread runs it from the wait to the return, and what the device does   *)
(* while the CPU waits is a device step before the call.                      *)

\* the value submit waits for: .values(&self.counts[frame])
\* a faulty wait: for the submission before the slot's last one
WaitValuePrevious(count) == IF count > 0 THEN count - 1 ELSE 0

WaitValue(count) == count

\* the `?` after wait_semaphores: go on when the wait succeeded, return the
\* error when it timed out
\* a faulty submit: the result of the wait is ignored
AfterWaitIgnored(reached) == "stage"

AfterWait(reached) == IF reached THEN "stage" ELSE "return"

\* the slot's staging block after step "Write to mapped memory"
Staged(st, a) ==
    IF NeedsNewStaging(st, a)
    THEN CopyToStaging(StagingNew(ArenaSize(a)), a)
    ELSE CopyToStaging(st, a)

\* how far a call of submit gets: the step that returns the error, or "ok"
SubmitOutcomes == {"ok", "staging_new", "begin_command_buffer",
                   "end_command_buffer", "queue_submit2"}

\* the history after one more call of submit
Called(failed) ==
    [hist EXCEPT !.calls = @ + 1,
                 !.failures = IF failed THEN @ + 1 ELSE @]

Submit(f, outcome, maxCalls) ==
    /\ Idle
    /\ hist.calls < maxCalls
    /\ outcome # "ok" => dhist.failures + hist.failures < MaxFailures
    /\ cur' = f
    /\ LET reached == WaitSatisfied(semaphores[f], WaitValue(counts[f])) IN
       IF AfterWait(reached) # "stage"
       THEN \* wait_semaphores(.., TIMEOUT)? returned VK_TIMEOUT
            /\ outcome = "ok"
            /\ result' = Err("TIMEOUT")
            /\ hist' = Called(FALSE)
            /\ UNCHANGED transferVars
       ELSE
       CASE outcome = "staging_new" ->
            \* Staging::new(..)? failed: the slot keeps its block
            /\ NeedsNewStaging(staging[f], arena)
            /\ result' = Err("ERROR_OUT_OF_DEVICE_MEMORY")
            /\ hist' = Called(TRUE)
            /\ UNCHANGED transferVars
         [] outcome = "begin_command_buffer" ->
            /\ staging' = [staging EXCEPT ![f] = Staged(staging[f], arena)]
            /\ result' = Err("ERROR_OUT_OF_HOST_MEMORY")
            /\ hist' = Called(TRUE)
            /\ UNCHANGED <<command_buffers, semaphores, counts, queue>>
         [] outcome = "end_command_buffer" ->
            /\ staging' = [staging EXCEPT ![f] = Staged(staging[f], arena)]
            /\ command_buffers' = [command_buffers EXCEPT ![f] =
                  [state |-> "invalid", cmds |-> RecordCommands(transaction)]]
            /\ result' = Err("ERROR_OUT_OF_HOST_MEMORY")
            /\ hist' = Called(TRUE)
            /\ UNCHANGED <<semaphores, counts, queue>>
         [] outcome = "queue_submit2" ->
            /\ staging' = [staging EXCEPT ![f] = Staged(staging[f], arena)]
            /\ command_buffers' = [command_buffers EXCEPT ![f] =
                  [state |-> "executable", cmds |-> RecordCommands(transaction)]]
            /\ counts' = Counted(counts, f)
            /\ result' = Err("ERROR_DEVICE_LOST")
            /\ hist' = Called(TRUE)
            /\ UNCHANGED <<semaphores, queue>>
         [] outcome = "ok" ->
            /\ staging' = [staging EXCEPT ![f] = Staged(staging[f], arena)]
            /\ command_buffers' = [command_buffers EXCEPT ![f] =
                  [state |-> "pending", cmds |-> RecordCommands(transaction)]]
            /\ counts' = Counted(counts, f)
            /\ queue' = Append(queue, [frame |-> f, value |-> counts'[f],
                                       expect |-> hist.writes])
            /\ result' = Ok(f, counts'[f])
            /\ hist' = [Called(FALSE) EXCEPT !.ok_submits[f] = @ + 1]
            /\ UNCHANGED semaphores
    /\ UNCHANGED <<txnVars, pc, deviceVars, drawVars, resourceVars>>

----------------------------------------------------------------------------
(* Actions: the device *)

RemoveAt(q, i) == SubSeq(q, 1, i - 1) \o SubSeq(q, i + 1, Len(q))

\* the transfer queue finishes a queued submission: it runs the slot's command
\* buffer against the slot's staging block and signals the slot's semaphore.
\* Submissions of one slot finish in submission order, those of different
\* slots in any order.
GpuTransfer(i) ==
    /\ i \in 1 .. Len(queue)
    /\ \A j \in 1 .. (i - 1) : queue[j].frame # queue[i].frame
    /\ LET e == queue[i]
           r == ExecCmds(command_buffers[e.frame].cmds, staging[e.frame].mem,
                         buffers, images)
       IN /\ buffers' = r.buffers
          /\ images' = r.images
          /\ semaphores' = [semaphores EXCEPT ![e.frame] = e.value]
          /\ command_buffers' = [command_buffers EXCEPT ![e.frame].state = "invalid"]
    /\ queue' = RemoveAt(queue, i)
    /\ UNCHANGED <<txnVars, staging, counts, callVars, hist, drawVars, resourceVars>>

----------------------------------------------------------------------------
(* The transfer engine with its callers *)

\* the caller's writes, at most maxWrites of them between two clears
FillBuffers(payloads, offsets, maxWrites) ==
    \E src \in payloads, dst \in BufferNames, o \in offsets :
        Len(hist.writes) < maxWrites /\ BufferWrite(src, dst, o)

FillImages(src, names, regionLists, layouts, maxWrites) ==
    \E dst \in names, rs \in regionLists, l \in layouts :
        Len(hist.writes) < maxWrites /\ ImageWrite(src, dst, rs, l)

Clears == hist.clears < MaxClears /\ Clear

Device == \E i \in 1 .. MaxSubmits : GpuTransfer(i)

\* The transfer engine under back-to-back submits: small Transactions, more calls
Next ==
    \/ FillBuffers(BufferPayloads, {0}, MaxWrites)
    \/ Clears
    \/ \E f \in Frames, o \in SubmitOutcomes : Submit(f, o, MaxSubmits)
    \/ Device

Spec == Init /\ [][Next]_vars

\* The transfer engine as an upload path: buffer and image writes, fewer calls
NextUpload ==
    \/ FillBuffers({Payload(1, 3)}, {0}, MaxWrites)
    \/ FillImages(ImagePayload, {"texture"}, {TwoRegions(ImageSize)},
                  {"SHADER_READ_ONLY_OPTIMAL"}, MaxWrites)
    \/ Clears
    \/ \E f \in Frames, o \in SubmitOutcomes : Submit(f, o, MaxUploads)
    \/ Device

SpecUpload == Init /\ [][NextUpload]_vars

\* the caller drops its Transaction and goes on with a new one:
\* Transaction::new, whose Arena has no block yet
NewTransaction ==
    /\ Idle
    /\ hist.clears < MaxClears
    /\ arena' = ArenaNew(0)
    /\ transaction' = TransactionNew(transaction.src_queue_family,
                                     transaction.dst_queue_family)
    /\ hist' = [hist EXCEPT !.writes = << >>, !.clears = @ + 1]
    /\ UNCHANGED <<transferVars, callVars, deviceVars, drawVars, resourceVars>>

\* The staging blocks under Transactions of different sizes
NextStaging ==
    \/ FillBuffers({Payload(2, 8)}, {0}, MaxWrites)
    \/ FillImages(ImagePayload, {"texture"}, {OneRegion(ImageSize)}, {"GENERAL"},
                  MaxWrites)
    \/ Clears
    \/ NewTransaction
    \* the two exits of submit that differ in what is done to the staging block
    \/ \E f \in Frames, o \in {"ok", "staging_new"} : Submit(f, o, MaxUploads)
    \/ Device

SpecStaging == Init /\ [][NextStaging]_vars

\* The Transaction and its Arena alone, with every kind of write
InitTxn ==
    /\ \E pair \in QueueFamilyPairs : InitTransaction(pair)
    /\ InitTransfer
    /\ InitDevice
    /\ InitHist
    /\ InitDraw
    /\ InitResources

NextTxn ==
    \/ FillBuffers(BufferPayloads, DstOffsets, MaxAppends)
    \/ FillImages(SmallPayload, ImageNames,
                  {TwoRegions(Len(SmallPayload))},
                  FinalLayouts, MaxAppends)
    \/ Clears

SpecTxn == InitTxn /\ [][NextTxn]_vars

----------------------------------------------------------------------------
(* The Arena alone: src/src/transfer/arena.rs *)

\* the capacities Arena::new is called with
ArenaCapacities == {0, 5, 16}

\* the byte sequences passed to Arena::extend
ArenaPayloads == {Payload(0, 0), Payload(1, 3), Payload(2, 8), Payload(4, 12)}

\* Arena::new(size); hist keeps the extends since the last clear, the largest
\* content size the Arena has had and the capacity it was created with
InitArena ==
    /\ \E c \in ArenaCapacities :
          /\ arena = ArenaNew(c)
          /\ hist = [writes |-> << >>, clears |-> 0, peak |-> 0, initial |-> c]
    /\ transaction = TransactionNew(1, 0)
    /\ InitTransfer
    /\ InitDevice
    /\ InitDraw
    /\ InitResources

\* Arena::extend(src)
Extend(src) ==
    /\ Len(hist.writes) < MaxAppends
    /\ LET r == ArenaExtend(arena, src) IN
       /\ arena' = r.arena
       /\ hist' = [hist EXCEPT
                     !.writes = Append(@, [src |-> src, offset |-> r.offset]),
                     !.peak = IF r.arena.size > @ THEN r.arena.size ELSE @]
    /\ UNCHANGED <<transaction, transferVars, callVars, deviceVars, drawVars, resourceVars>>

\* Arena::clear()
ClearArena ==
    /\ hist.clears < MaxClears
    /\ arena' = ArenaClear(arena)
    /\ hist' = [hist EXCEPT !.writes = << >>, !.clears = @ + 1]
    /\ UNCHANGED <<transaction, transferVars, callVars, deviceVars, drawVars, resourceVars>>

NextArena ==
    \/ \E src \in ArenaPayloads : Extend(src)
    \/ ClearArena

SpecArena == InitArena /\ [][NextArena]_vars

----------------------------------------------------------------------------
(* Base::allocate with its callers *)

\* resources in one requirements list
MaxRequirements == 2

\* get_physical_device_memory_properties: the memory types of the device
MemoryTypes ==
    << {"DEVICE_LOCAL"},
       {"HOST_VISIBLE", "HOST_COHERENT"},
       {"DEVICE_LOCAL", "HOST_VISIBLE", "HOST_COHERENT"} >>

\* the memory requirements the device reports for a buffer or an image
RequirementSizes      == {4, 12}
RequirementAlignments == {1, 8, 16}
RequirementTypeBits   == {{0, 1, 2}, {0, 2}, {1}}
Requirements ==
    [size : RequirementSizes, alignment : RequirementAlignments,
     memory_type_bits : RequirementTypeBits]

RequirementLists ==
    UNION { [1 .. n -> Requirements] : n \in 0 .. MaxRequirements }

\* the property masks the callers pass
PropertyMasks == { {"DEVICE_LOCAL"}, {"HOST_VISIBLE"}, {"HOST_VISIBLE", "HOST_CACHED"} }

\* what allocate_memory returns
AllocateResults == {"SUCCESS", "ERROR_OUT_OF_DEVICE_MEMORY"}

\* the caller is about to call Base::allocate(requirements, properties)
InitAlloc ==
    /\ InitTransaction(<<1, 0>>)
    /\ InitTransfer
    /\ InitDevice
    /\ InitHist
    /\ InitDraw
    /\ \E requirements \in RequirementLists, properties \in PropertyMasks :
          alloc = [NoAlloc EXCEPT !.requirements = requirements,
                                  !.properties = properties]
    /\ InitObjects

\* the call of Base::allocate(requirements, properties) returns
AllocateCall(device_result) ==
    /\ ~alloc.called
    /\ alloc' = [alloc EXCEPT
                   !.called = TRUE,
                   !.result = Allocate(alloc.requirements, alloc.properties,
                                       MemoryTypes, device_result)]
    /\ UNCHANGED <<txnVars, transferVars, callVars, deviceVars, hist, drawVars,
                   objects, tpc>>

NextAlloc == \E device_result \in AllocateResults : AllocateCall(device_result)

SpecAlloc == InitAlloc /\ [][NextAlloc]_vars

----------------------------------------------------------------------------
(* Base::create_buffers, Base::create_images and Staging::new.  vk::Buffer,  *)
(* vk::Image and vk::DeviceMemory are plain handles: nothing is released     *)
(* when one goes out of scope.                                               *)

\* what bind_buffer_memory2 / bind_image_memory2 return
BindResults == {"SUCCESS", "ERROR_OUT_OF_HOST_MEMORY"}

\* what map_memory returns
MapResults == {"SUCCESS", "ERROR_MEMORY_MAP_FAILED"}

\* the handles created for the create_infos: one per element
CreatedHandles(path, kind, n) == { <<path, i, kind>> : i \in 1 .. n }

\* the objects that exist when a creating call returns
LiveObjects(handles) == [o \in handles |-> "live"]

\* create_buffers / create_images: the resources are created, then the memory
\* is allocated (`?`), then the resources are bound to it (`?`)
CreateResources(path, kind, requirements, properties, device_result, bind_result) ==
    LET handles    == CreatedHandles(path, kind, Len(requirements))
        allocation == Allocate(requirements, properties, MemoryTypes, device_result)
        block      == { <<path, 0, "allocation">> }
    IN  IF ~allocation.ok
        THEN [ok |-> FALSE, err |-> allocation.err, at |-> 1,
              allocation |-> allocation, objects |-> LiveObjects(handles)]
        ELSE IF bind_result # "SUCCESS"
        THEN [ok |-> FALSE, err |-> bind_result, at |-> 2,
              allocation |-> allocation, objects |-> LiveObjects(handles \cup block)]
        ELSE [ok |-> TRUE, err |-> "SUCCESS", at |-> 3,
              allocation |-> allocation, objects |-> LiveObjects(handles \cup block)]

\* Staging::new: create_buffers for one buffer (`?`), then map_memory (`?`)
StagingNewResources(requirements, device_result, bind_result, map_result) ==
    LET created == CreateResources("Staging::new", "buffer", requirements,
                                   {"HOST_VISIBLE"}, device_result, bind_result)
    IN  IF ~created.ok THEN created
        ELSE IF map_result # "SUCCESS"
        THEN [created EXCEPT !.ok = FALSE, !.err = map_result, !.at = 4]
        ELSE [created EXCEPT !.at = 5]

CreatePaths == {"create_buffers", "create_images", "Staging::new"}

\* the kind of resource a path creates
CreatedKind(path) == IF path = "create_images" THEN "image" ELSE "buffer"

\* the caller is about to create resources with the requirements the device
\* will report for them; nothing of the call exists yet
InitCreate ==
    /\ InitTransaction(<<1, 0>>)
    /\ InitTransfer
    /\ InitDevice
    /\ InitHist
    /\ InitDraw
    /\ \E requirements \in RequirementLists, properties \in PropertyMasks :
          alloc = [NoAlloc EXCEPT !.requirements = requirements,
                                  !.properties = properties]
    /\ objects = << >>
    /\ tpc = [path |-> "none", at |-> 0, status |-> "idle"]

\* the call has returned `created`
Returned(path, created) ==
    /\ alloc' = [alloc EXCEPT !.called = TRUE, !.result = created.allocation]
    /\ objects' = created.objects
    /\ tpc' = [path |-> path, at |-> created.at,
               status |-> IF created.ok THEN "Ok" ELSE "Err"]
    /\ UNCHANGED <<txnVars, transferVars, callVars, deviceVars, hist, drawVars>>

\* a call of create_buffers or create_images
CreateCall(path, device_result, bind_result) ==
    /\ tpc.status = "idle"
    /\ ~alloc.called
    /\ path \in {"create_buffers", "create_images"}
    /\ Returned(path, CreateResources(path, CreatedKind(path), alloc.requirements,
                                      alloc.properties, device_result, bind_result))

\* a call of Staging::new: one buffer, host-visible memory
StagingNewCall(device_result, bind_result, map_result) ==
    /\ tpc.status = "idle"
    /\ ~alloc.called
    /\ Len(alloc.requirements) = 1
    /\ alloc.properties = {"HOST_VISIBLE"}
    /\ Returned("Staging::new",
                StagingNewResources(alloc.requirements, device_result,
                                    bind_result, map_result))

NextCreate ==
    \/ \E path \in CreatePaths, device_result \in AllocateResults,
          bind_result \in BindResults :
          CreateCall(path, device_result, bind_result)
    \/ \E device_result \in AllocateResults, bind_result \in BindResults,
          map_result \in MapResults :
          StagingNewCall(device_result, bind_result, map_result)

SpecCreate == InitCreate /\ [][NextCreate]_vars

----------------------------------------------------------------------------
(* Teardown, with transfers that may still be on the queue *)

\* a teardown path is entered; outside the drop of Transfer a Staging is
\* dropped by Transfer::submit when it replaces it, after the wait on the slot
StartTeardown(path) ==
    /\ Idle
    /\ tpc.status = "idle"
    /\ path = "Staging" => ~Pending(0)
    /\ tpc' = [path |-> path, at |-> 1, status |-> "running"]
    /\ UNCHANGED <<txnVars, transferVars, callVars, deviceVars, hist, drawVars,
                   alloc, objects>>

\* the next call of the running teardown; a fallible call fails when `fail`
TeardownStep(fail, mode) ==
    /\ tpc.status \in {"running", "unwinding"}
    /\ LET op == TeardownOps(tpc.path)[tpc.at] IN
       IF op.kind \in {"unwrap", "try"}
       THEN /\ objects' = objects
            /\ IF fail
               THEN tpc' = Failed(tpc, op.kind, mode)
               ELSE /\ mode = "unwind"
                    /\ WaitDone(op, queue, gqueue)
                    /\ tpc' = Advanced(tpc)
       ELSE /\ ~fail
            /\ mode = "unwind"
            /\ objects' = IF op.kind = "unmap" THEN objects
                          ELSE [objects EXCEPT ![op.object] = "destroyed"]
            /\ tpc' = Advanced(tpc)
    /\ UNCHANGED <<txnVars, transferVars, callVars, deviceVars, hist, drawVars, alloc>>

\* Transfer::submit by the owner of a Transfer that is not being dropped
SubmitBeforeTeardown ==
    /\ tpc.status = "idle"
    /\ \E f \in Frames, o \in SubmitOutcomes \ {"staging_new"} :
          Submit(f, o, MaxFrameSubmits)

NextTeardown ==
    \/ SubmitBeforeTeardown
    \/ Device
    \/ \E path \in TeardownPaths : StartTeardown(path)
    \/ \E fail \in BOOLEAN, mode \in PanicModes : TeardownStep(fail, mode)

SpecTeardown == Init /\ [][NextTeardown]_vars

----------------------------------------------------------------------------
(* Renderer::draw: src/src/lib.rs.  One scene is loaded.  The call is one     *)
(* step, like submit.                                                          *)

\* a faulty draw: the fence is not looked at
FenceIgnored(fence) == TRUE

\* wait_for_fences(frame.fence, .., 100 ms)?: succeeds when the fence is signalled
FenceWaitOk(fence) == fence

\* the waits of the graphics submission: wait_semaphore_infos of queue_submit2
GraphicsWaits(f) == { [semaphore |-> <<"image_acquired", f>>, value |-> 0] }

\* a faulty step: the slot is kept
NextFrameStays(frame) == frame

\* current_frame after a successful draw
NextFrame(frame) == (frame + 1) % FRAME_COUNT

\* the device can run a graphics submission once each of its waits is satisfied:
\* a binary semaphore has a signal pending, a timeline semaphore has reached the value
WaitReady(w, fr, sems) ==
    CASE w.semaphore[1] = "image_acquired" -> fr[w.semaphore[2]].acquired >= 1
      [] w.semaphore[1] = "transfer"       -> sems[w.semaphore[2]] >= w.value

Runnable(e, fr, sems) == \A w \in e.waits : WaitReady(w, fr, sems)

\* the frame slots after the device ran graphics submission e: the wait on the
\* acquire semaphore is consumed, the present semaphore and the fence are
\* signalled, the present request (if one was queued) consumes the present signal
AfterGraphics(e, fr) ==
    [fr EXCEPT ![e.frame] =
        [@ EXCEPT !.acquired = IF @ >= 1 THEN @ - 1 ELSE 0,
                  !.present = IF e.presented THEN 0 ELSE 1,
                  !.fence = TRUE,
                  !.command_buffer = "invalid"]]

\* queue_wait_idle(graphics_queue): every queued submission has run
RECURSIVE Drained(_, _)
Drained(q, fr) ==
    IF q = << >> THEN fr ELSE Drained(Tail(q), AfterGraphics(Head(q), fr))

\* the frame slots after `n` acquisitions with the slot's acquire semaphore
Acquired(fr, f, n) == [fr EXCEPT ![f].acquired = @ + n]

\* how far a call of draw gets: the call that returns the error, or "ok";
\* "out_of_date" is acquire_next_image returning ERROR_OUT_OF_DATE_KHR,
\* "acquire_next_image" is it returning NOT_READY
DrawOutcomes == {"ok", "acquire_next_image", "out_of_date", "begin_command_buffer",
                 "map_memory", "queue_submit2", "queue_present"}

\* what the last acquisition of a call of draw returns
LastAcquire(outcome) ==
    CASE outcome = "out_of_date"        -> "ERROR_OUT_OF_DATE_KHR"
      [] outcome = "acquire_next_image" -> "NOT_READY"
      [] OTHER                          -> "SUCCESS"

\* acquire_next_image(..)?: Ok((index, false)) on SUCCESS, Ok((index, true)) on
\* SUBOPTIMAL_KHR, Err(code) on every other code
AcquireNextImage(code) ==
    [ok         |-> code \in {"SUCCESS", "SUBOPTIMAL_KHR"},
     suboptimal |-> code = "SUBOPTIMAL_KHR"]

\* the history after one more call of draw
Drawn(failed, ok) ==
    [dhist EXCEPT !.calls = @ + 1,
                  !.failures = IF failed THEN @ + 1 ELSE @,
                  !.slots = IF ok THEN Append(@, current_frame) ELSE @]

\* Renderer::draw(); `retries` acquisitions report the swapchain as suboptimal
\* before the last one
Draw(retries, outcome) ==
    /\ Idle
    /\ dhist.calls < MaxDraws
    /\ outcome # "ok" => dhist.failures + hist.failures < MaxFailures
    /\ LET f  == current_frame
           \* the acquire loop: each suboptimal acquisition signals semaphores[0],
           \* then the queue is drained and the swapchain replaced
           q1 == IF retries > 0 THEN << >> ELSE gqueue
           f0 == IF retries > 0
                 THEN Drained(gqueue, Acquired(frames, f, 1))
                 ELSE frames
           f1 == Acquired(f0, f, retries - (IF retries > 0 THEN 1 ELSE 0))
           sc == [id |-> swapchain.id + retries]
           \* the last acquisition
           f2 == Acquired(f1, f, 1)
           \* past the fence wait: is a submission of the slot still on the queue
           busy == \E i \in 1 .. Len(q1) : q1[i].frame = f
           \* reset_fences
           f3 == [f2 EXCEPT ![f].fence = FALSE]
           \* begin_command_buffer
           f4 == [f3 EXCEPT ![f].command_buffer = "recording"]
           \* the transform region of the slot is mapped and written
           f5 == [f4 EXCEPT ![f].region = dhist.calls + 1]
           \* end_command_buffer, queue_submit2
           f6 == [f5 EXCEPT ![f].command_buffer = "pending"]
           e  == [frame |-> f, waits |-> GraphicsWaits(f), presented |-> FALSE,
                  transfer_value |-> hist.ok_submits[f]]
       IN
       /\ swapchain' = sc
       /\ IF ~AcquireNextImage(LastAcquire(outcome)).ok
          THEN /\ frames' = f1
               /\ gqueue' = q1
               /\ current_frame' = current_frame
               /\ dloc' = [frame |-> f, result |-> "acquire_next_image",
                           swapchain |-> sc.id, busy |-> FALSE,
                           acquire |-> LastAcquire(outcome)]
               /\ dhist' = Drawn(TRUE, FALSE)
          ELSE IF ~FenceWaitOk(f2[f].fence)
          THEN \* wait_for_fences(..)? returned VK_TIMEOUT
               /\ outcome = "ok"
               /\ frames' = f2
               /\ gqueue' = q1
               /\ current_frame' = current_frame
               /\ dloc' = [frame |-> f, result |-> "TIMEOUT", swapchain |-> sc.id,
                           busy |-> FALSE, acquire |-> "SUCCESS"]
               /\ dhist' = Drawn(FALSE, FALSE)
          ELSE
          CASE outcome = "begin_command_buffer" ->
               /\ frames' = f3
               /\ gqueue' = q1
               /\ current_frame' = current_frame
               /\ dloc' = [frame |-> f, result |-> outcome, swapchain |-> sc.id,
                           busy |-> busy, acquire |-> "SUCCESS"]
               /\ dhist' = Drawn(TRUE, FALSE)
            [] outcome = "map_memory" ->
               /\ frames' = f4
               /\ gqueue' = q1
               /\ current_frame' = current_frame
               /\ dloc' = [frame |-> f, result |-> outcome, swapchain |-> sc.id,
                           busy |-> busy, acquire |-> "SUCCESS"]
               /\ dhist' = Drawn(TRUE, FALSE)
            [] outcome = "queue_submit2" ->
               /\ frames' = [f5 EXCEPT ![f].command_buffer = "executable"]
               /\ gqueue' = q1
               /\ current_frame' = current_frame
               /\ dloc' = [frame |-> f, result |-> outcome, swapchain |-> sc.id,
                           busy |-> busy, acquire |-> "SUCCESS"]
               /\ dhist' = Drawn(TRUE, FALSE)
            [] outcome = "queue_present" ->
               /\ frames' = f6
               /\ gqueue' = Append(q1, e)
               /\ current_frame' = current_frame
               /\ dloc' = [frame |-> f, result |-> outcome, swapchain |-> sc.id,
                           busy |-> busy, acquire |-> "SUCCESS"]
               /\ dhist' = Drawn(TRUE, FALSE)
            [] outcome = "ok" ->
               /\ frames' = f6
               /\ gqueue' = Append(q1, [e EXCEPT !.presented = TRUE])
               /\ current_frame' = NextFrame(current_frame)
               /\ dloc' = [frame |-> f, result |-> "SUCCESS", swapchain |-> sc.id,
                           busy |-> busy, acquire |-> "SUCCESS"]
               /\ dhist' = Drawn(FALSE, TRUE)
    /\ UNCHANGED <<txnVars, transferVars, callVars, deviceVars, hist, dpc, resourceVars>>

\* the graphics queue runs its oldest submission once its waits are satisfied
GpuGraphics ==
    /\ gqueue # << >>
    /\ Runnable(Head(gqueue), frames, semaphores)
    /\ frames' = AfterGraphics(Head(gqueue), frames)
    /\ gqueue' = Tail(gqueue)
    /\ UNCHANGED <<txnVars, transferVars, callVars, deviceVars, hist,
                   current_frame, swapchain, dpc, dloc, dhist, resourceVars>>

\* The frame pipeline, with a caller that submits (empty) Transactions
NextFrameLoop ==
    \/ \E r \in 0 .. MaxRetries, o \in DrawOutcomes : Draw(r, o)
    \/ \E f \in Frames, o \in SubmitOutcomes \ {"staging_new"} :
          Submit(f, o, MaxFrameSubmits)
    \/ Device
    \/ GpuGraphics

SpecFrame == Init /\ [][NextFrameLoop]_vars

----------------------------------------------------------------------------
(* Properties of the transfer engine *)

\* this step is a call of Transfer::submit on slot f
SubmitStep(f) == hist'.calls = hist.calls + 1 /\ cur' = f

\* this step is a call of submit on slot f that got past the wait and the staging
\* reallocation: it wrote the slot's staging memory (after replacing the block if
\* needed) and began re-recording the slot's command buffer
Touched(f) ==
    /\ SubmitStep(f)
    /\ result'.err \notin {"TIMEOUT", "ERROR_OUT_OF_DEVICE_MEMORY"}

\* C1: the CPU never writes or replaces slot f's staging block, nor re-records
\* slot f's transfer command buffer, while a transfer submitted on slot f has not
\* finished on the device, whatever the sequence of submits (back-to-back
\* included); transfers of two different slots may be in flight together.
C1_NoOverlapOnSlot ==
    [][\A f \in Frames : Touched(f) => ~Pending(f)]_vars

\* a second submit went through on a slot, and both slots are in flight
C1_Witness ==
    /\ \E f \in Frames : hist.ok_submits[f] >= 2
    /\ \A f \in Frames : Pending(f)

\* C4: a successful submit on slot f increases counts[f] by exactly 1, queues a
\* signal of slot f's semaphore to the new value and returns (semaphore f, new
\* value); the k-th successful submit on a slot returns k.
C4_CounterSteps ==
    [][\A f \in Frames :
          (SubmitStep(f) /\ result'.ok) =>
              /\ counts'[f] = counts[f] + 1
              /\ Len(queue') = Len(queue) + 1
              /\ queue'[Len(queue')].frame = f
              /\ queue'[Len(queue')].value = counts'[f]
              /\ SubSeq(queue', 1, Len(queue)) = queue
              /\ result'.semaphore = f
              /\ result'.value = counts'[f]
              /\ result'.value = hist'.ok_submits[f]]_vars

\* the third successful submit of a slot has returned
C4_Witness == result.ok /\ result.value = 3 /\ hist.ok_submits[cur] = 3

\* C5: when the wait at the start of submit times out (the slot's semaphore is
\* below the value of the slot's previous submission), submit returns an error
\* and has changed neither the staging blocks, nor the command buffers, nor the
\* queue, nor the counters.
C5_TimeoutChangesNothing ==
    [][\A f \in Frames :
          (SubmitStep(f) /\ semaphores[f] < counts[f]) =>
              /\ ~result'.ok
              /\ result'.err = "TIMEOUT"
              /\ UNCHANGED <<staging, command_buffers, counts, queue, semaphores>>
      ]_vars

\* a submit has timed out while a transfer of its slot was still on the queue
C5_Witness == result.err = "TIMEOUT" /\ Pending(cur) /\ hist.calls >= 2

\* the writes of a Transaction have reached their destinations: every buffer
\* range holds the bytes passed to buffer_write, every image has the layout
\* passed to image_write
Delivered(writes, bufs, imgs) ==
    \A k \in 1 .. Len(writes) :
        LET w == writes[k] IN
        IF w.kind = "buffer"
        THEN \A i \in 1 .. Len(w.src) : bufs[w.dst][w.dst_offset + i] = w.src[i]
        ELSE imgs[w.dst].layout = w.layout

\* C6: in the step in which a slot's semaphore reaches the value a successful
\* submit returned, the destinations hold what the submitted Transaction's
\* writes named, also when the caller cleared and refilled the Transaction
\* right after submit returned.
C6_Delivered ==
    [][\A i \in 1 .. Len(queue) :
          (/\ semaphores[queue[i].frame] < queue[i].value
           /\ semaphores'[queue[i].frame] >= queue[i].value)
          => Delivered(queue[i].expect, buffers', images')]_vars

\* a transfer with a buffer write and an image write has finished on slot 0, the
\* Transaction was cleared and refilled meanwhile, and another transfer is queued
C6_Witness ==
    /\ semaphores[0] = 1
    /\ buffers["vertices"][1] = Payload(1, 3)[1]
    /\ images["texture"].layout = "SHADER_READ_ONLY_OPTIMAL"
    /\ hist.clears >= 1
    /\ Len(hist.writes) = 1
    /\ Pending(1)

\* C7: buffer_write, image_write and clear change only the Transaction: a step
\* that changes the Arena or the descriptor lists leaves every slot's counter,
\* staging block, command buffer and semaphore, the queue and the device
\* memory as they were.
C7_WritesStayOnHost ==
    [][(arena' # arena \/ transaction' # transaction) =>
          UNCHANGED <<transferVars, deviceVars>>]_vars

\* the Transaction holds a buffer write and an image write that no submit has
\* seen, while an earlier transfer is still queued
C7_Witness ==
    /\ Len(transaction.buffer_transfers) = 1
    /\ Len(transaction.image_transfers) = 1
    /\ queue # << >>
    /\ queue[1].expect = << >>

----------------------------------------------------------------------------
(* Properties of the frame pipeline *)

\* the graphics queue holds a submission of slot f that the device has not finished
GraphicsPending(f) == \E i \in 1 .. Len(gqueue) : gqueue[i].frame = f

\* this step is a call of draw on slot f
DrawStep(f) == dhist'.calls = dhist.calls + 1 /\ dloc'.frame = f

\* this step is a call of draw on slot f that got past the fence wait: it reset
\* the fence and went on to re-record the slot's command buffer and to write
\* the slot's transform region
Recorded(f) ==
    /\ DrawStep(f)
    /\ dloc'.result \notin {"acquire_next_image", "TIMEOUT"}

\* C2: a call of draw re-records slot f's graphics command buffer and writes
\* slot f's transform region only after the submission of the earlier draw on
\* slot f has finished (its fence is signalled); a call that does not get past
\* the fence wait leaves the slot's transform region and recording as they were.
C2_FenceGuardsSlot ==
    [][\A f \in Frames :
          /\ Recorded(f) => ~dloc'.busy
          /\ (DrawStep(f) /\ ~Recorded(f)) =>
                (/\ frames'[f].region = frames[f].region
                 /\ frames'[f].command_buffer \in
                       {frames[f].command_buffer, "invalid"})]_vars

\* a draw on a slot has timed out on the fence of that slot's earlier submission,
\* which is still on the queue, and the slot was used by two successful draws
C2_Witness ==
    /\ dloc.result = "TIMEOUT"
    /\ GraphicsPending(dloc.frame)
    /\ Len(dhist.slots) >= FRAME_COUNT + 1

\* C3: when the device runs the graphics submission of slot f, the transfer
\* submitted on slot f before it has finished: the slot's transfer semaphore has
\* reached the value Transfer::submit returned.
C3_GraphicsWaitsForTransfer ==
    [][\A f \in Frames :
          (/\ gqueue # << >>
           /\ gqueue' = Tail(gqueue)
           /\ Len(dhist'.slots) = Len(dhist.slots)
           /\ dhist'.calls = dhist.calls
           /\ Head(gqueue).frame = f)
          => semaphores[f] >= Head(gqueue).transfer_value]_vars

----------------------------------------------------------------------------
(* Properties of the Transaction and its Arena *)

\* the image writes among the calls since the last clear, in call order
RECURSIVE ImageWritesOf(_)
ImageWritesOf(writes) ==
    IF writes = << >> THEN << >>
    ELSE IF Head(writes).kind = "image"
         THEN << Head(writes) >> \o ImageWritesOf(Tail(writes))
         ELSE ImageWritesOf(Tail(writes))

\* C8: image_transfers, start_image_barriers and end_image_barriers have the
\* same length, the number of image_write calls since the last clear, and the
\* barriers at index i name the image and subresource range of transfer i.
C8_BarriersPaired ==
    LET n == Len(ImageWritesOf(hist.writes)) IN
    /\ Len(transaction.image_transfers) = n
    /\ Len(transaction.start_image_barriers) = n
    /\ Len(transaction.end_image_barriers) = n
    /\ \A i \in 1 .. n :
          /\ transaction.start_image_barriers[i].image
                = transaction.image_transfers[i].dst
          /\ transaction.end_image_barriers[i].image
                = transaction.image_transfers[i].dst
          /\ transaction.start_image_barriers[i].subresource_range
                = transaction.image_transfers[i].subresource_range
          /\ transaction.end_image_barriers[i].subresource_range
                = transaction.image_transfers[i].subresource_range

\* two image writes were made after a clear
C8_Witness == Len(transaction.image_transfers) = 2 /\ hist.clears >= 1

\* C9: every end-barrier goes from TRANSFER_DST_OPTIMAL to the layout passed to
\* its image_write, from the transfer family to the consumer family the
\* Transaction was constructed with; the start-barrier goes from UNDEFINED to
\* TRANSFER_DST_OPTIMAL with both families the transfer family.
C9_BarrierFields ==
    LET iw == ImageWritesOf(hist.writes) IN
    /\ \A i \in 1 .. Len(transaction.end_image_barriers) :
          LET b == transaction.end_image_barriers[i] IN
          /\ i <= Len(iw)
          /\ b.old_layout = "TRANSFER_DST_OPTIMAL"
          /\ b.new_layout = iw[i].layout
          /\ b.src_queue_family_index = transaction.src_queue_family
          /\ b.dst_queue_family_index = transaction.dst_queue_family
    /\ \A i \in 1 .. Len(transaction.start_image_barriers) :
          LET b == transaction.start_image_barriers[i] IN
          /\ b.old_layout = "UNDEFINED"
          /\ b.new_layout = "TRANSFER_DST_OPTIMAL"
          /\ b.src_queue_family_index = transaction.src_queue_family
          /\ b.dst_queue_family_index = transaction.src_queue_family

\* two image writes with different final layouts, in a Transaction whose
\* transfer and consumer families differ
C9_Witness ==
    /\ Len(transaction.end_image_barriers) = 2
    /\ transaction.end_image_barriers[1].new_layout
          # transaction.end_image_barriers[2].new_layout
    /\ transaction.src_queue_family # transaction.dst_queue_family

\* C10: reading Len(data) bytes at the offset extend returned yields the data,
\* for every extend since the last clear: a later extend, reallocating or not,
\* does not overwrite an earlier one.
C10_RoundTrip ==
    \A k \in 1 .. Len(hist.writes) :
        LET w == hist.writes[k] IN
        /\ w.offset + Len(w.src) <= Len(arena.data)
        /\ \A i \in 1 .. Len(w.src) : arena.data[w.offset + i] = w.src[i]

\* three appends, the last of which reallocated an Arena that held data
C10_Witness ==
    /\ Len(hist.writes) = 3
    /\ arena.layout_size = arena.size
    /\ hist.clears = 0

\* C27: the regions of the i-th image_write since the last clear lie at
\* region_offset .. region_offset + region_count - 1 of the regions list, in
\* the order supplied, each with its buffer_offset raised by the Arena offset
\* of that call's data; the slices follow one another from index 0 and end at
\* the end of the list.
C27_RegionSlices ==
    LET iw == ImageWritesOf(hist.writes)
        it == transaction.image_transfers
    IN  /\ Len(it) = Len(iw)
        /\ \A i \in 1 .. Len(it) :
              /\ it[i].region_count = Len(iw[i].regions)
              /\ it[i].region_offset + it[i].region_count <= Len(transaction.regions)
              /\ \A k \in 1 .. it[i].region_count :
                    LET r == transaction.regions[it[i].region_offset + k]
                        s == iw[i].regions[k]
                    IN  /\ r.buffer_offset = s.buffer_offset + iw[i].offset
                        /\ r.image_offset = s.image_offset
                        /\ r.extent = s.extent
              /\ it[i].region_offset =
                    IF i = 1 THEN 0
                    ELSE it[i - 1].region_offset + it[i - 1].region_count
        /\ Len(transaction.regions) =
              IF it = << >> THEN 0
              ELSE it[Len(it)].region_offset + it[Len(it)].region_count

\* an image write, a buffer write and a second image write: the second image's
\* regions are the third and fourth of the list, moved by its Arena offset 24
C27_Witness ==
    /\ Len(transaction.image_transfers) = 2
    /\ Len(transaction.buffer_transfers) = 1
    /\ transaction.image_transfers[2].region_offset = 2
    /\ Len(transaction.regions) = 4
    /\ transaction.regions[3].buffer_offset = 24
    /\ transaction.regions[4].buffer_offset = 30

----------------------------------------------------------------------------
(* Properties of the Arena *)

\* C11: the content size of the Arena is a multiple of 8 and at most its
\* capacity, and every offset extend returned is a multiple of 8.
C11_ArenaAligned ==
    /\ arena.size % ALIGNMENT = 0
    /\ arena.size <= arena.layout_size
    /\ arena.layout_size = Len(arena.data)
    /\ \A k \in 1 .. Len(hist.writes) : hist.writes[k].offset % ALIGNMENT = 0

\* an extend of 3 bytes was followed by two more, the last at a non-zero offset,
\* in an Arena that had to grow
C11_Witness ==
    /\ Len(hist.writes) = 3
    /\ Len(hist.writes[1].src) = 3
    /\ hist.writes[3].offset > ALIGNMENT
    /\ arena.layout_size = arena.size

\* C12: clear sets the content size to zero and leaves the capacity and the
\* block as they were; an extend that brings the content size to at most the
\* largest content size the Arena has had does not reallocate.
C12_ClearKeepsCapacity ==
    [][/\ hist'.clears = hist.clears + 1 =>
            (/\ arena'.size = 0
             /\ arena'.layout_size = arena.layout_size
             /\ arena'.data = arena.data)
       /\ (Len(hist'.writes) = Len(hist.writes) + 1 /\ arena'.size <= hist.peak) =>
            (/\ arena'.layout_size = arena.layout_size
             /\ Len(arena'.data) = Len(arena.data))]_vars

\* after a clear the Arena was refilled up to its earlier peak, which had
\* needed a reallocation
C12_Witness ==
    /\ hist.clears >= 1
    /\ Len(hist.writes) >= 2
    /\ arena.size = hist.peak
    /\ arena.layout_size = hist.peak


\* C26: extend changes the capacity only when the new content size is strictly
\* greater than it, and then to exactly the new content size; the capacity is
\* always the larger of the initial capacity and the largest content size
\* reached.
C26_CapacityIsPeak ==
    /\ arena.layout_size = IF hist.peak > hist.initial THEN hist.peak ELSE hist.initial
    /\ [][Len(hist'.writes) = Len(hist.writes) + 1 =>
             arena'.layout_size = IF arena'.size > arena.layout_size
                                  THEN arena'.size
                                  ELSE arena.layout_size]_vars

\* an Arena created with 5 bytes grew to 16, was cleared and refilled to 8
C26_Witness ==
    /\ hist.initial = 5
    /\ hist.peak = 16
    /\ arena.layout_size = 16
    /\ hist.clears = 1
    /\ arena.size = 8

\* the sum of the lengths appended since the last clear, each rounded up to 8
RECURSIVE ContentSize(_)
ContentSize(writes) ==
    IF writes = << >> THEN 0
    ELSE ContentSize(SubSeq(writes, 1, Len(writes) - 1))
         + RoundUp(Len(writes[Len(writes)].src))

\* C24: after extends and clears Arena.size() is the content size: the sum of
\* the rounded lengths appended since the last clear, 0 right after a clear.
C24_SizeIsContentSize ==
    (hist.clears > 0 \/ hist.writes # << >>) =>
        ArenaSize(arena) = ContentSize(hist.writes)

----------------------------------------------------------------------------
(* Properties of Base::allocate *)

\* a call of allocate has returned Ok
Allocated == alloc.called /\ alloc.result.ok

\* the memory types a call may use: the property flags contain the requested
\* ones and the bit is set in every requirement's mask
Eligible(requirements, properties) ==
    { i \in 0 .. (Len(MemoryTypes) - 1) :
        /\ properties \subseteq MemoryTypes[i + 1]
        /\ \A k \in 1 .. Len(requirements) : i \in requirements[k].memory_type_bits }

\* C13: for a non-empty requirements list, allocate returns one offset per
\* requirement, in input order, each a multiple of its requirement's alignment.
C13_OffsetsAligned ==
    (Allocated /\ alloc.requirements # << >>) =>
        /\ Len(alloc.result.offsets) = Len(alloc.requirements)
        /\ \A i \in 1 .. Len(alloc.requirements) :
              alloc.result.offsets[i] % alloc.requirements[i].alignment = 0

\* two resources were placed, the second moved up to its alignment of 16
C13_Witness ==
    /\ Allocated
    /\ Len(alloc.requirements) = 2
    /\ alloc.requirements[1].size = 12
    /\ alloc.requirements[2].alignment = 16
    /\ alloc.result.offsets[2] = 16

\* C14: the offsets do not decrease, each resource ends at or before the next
\* one's offset, and the block has the size offset[last] + size[last]: the
\* ranges are pairwise disjoint and inside the block.
C14_RangesDisjoint ==
    (Allocated /\ alloc.requirements # << >>) =>
        LET n   == Len(alloc.requirements)
            off == alloc.result.offsets
        IN  /\ Len(off) = n
            /\ \A i \in 1 .. (n - 1) :
                  /\ off[i] <= off[i + 1]
                  /\ off[i] + alloc.requirements[i].size <= off[i + 1]
            /\ alloc.result.size = off[n] + alloc.requirements[n].size
            /\ \A i, j \in 1 .. n :
                  i < j => off[i] + alloc.requirements[i].size <= off[j]
            /\ \A i \in 1 .. n :
                  off[i] + alloc.requirements[i].size <= alloc.result.size

\* two resources of 12 and 4 bytes share a block with padding between them
C14_Witness ==
    /\ Allocated
    /\ Len(alloc.requirements) = 2
    /\ alloc.requirements[1].size = 12
    /\ alloc.requirements[2].size = 4
    /\ alloc.result.offsets[2] = 16
    /\ alloc.result.size = 20

\* C15: allocate uses the lowest memory type whose flags contain the requested
\* flags and whose bit is set in the AND of the masks; when there is none it
\* returns an error and allocates nothing.
C15_LowestEligibleType ==
    alloc.called =>
        LET el == Eligible(alloc.requirements, alloc.properties) IN
        /\ el = {} => (~alloc.result.ok /\ alloc.result.allocated = 0)
        /\ alloc.result.ok =>
              /\ alloc.result.memory_type_index \in el
              /\ \A i \in el : alloc.result.memory_type_index <= i
              /\ alloc.result.allocated = 1

\* a call for host-visible memory, with type 1 masked out by a requirement,
\* skipped types 0 and 1 and allocated at type 2
C15_Witness ==
    /\ Allocated
    /\ alloc.properties = {"HOST_VISIBLE"}
    /\ Len(alloc.requirements) = 2
    /\ alloc.requirements[2].memory_type_bits = {0, 2}
    /\ alloc.result.memory_type_index = 2

\* C16: a call of allocate with an empty requirements list is rejected: it
\* returns an error and allocates no device memory.
C16_EmptyListRejected ==
    (alloc.called /\ alloc.requirements = << >>) =>
        (~alloc.result.ok /\ alloc.result.allocated = 0)


----------------------------------------------------------------------------
(* Properties of the frame slots and the swapchain *)

\* C17: the k-th successful draw (from 0) uses slot k mod FRAME_COUNT;
\* current_frame is below FRAME_COUNT and changes only in a call of draw that
\* succeeds.
C17_RoundRobin ==
    /\ current_frame \in Frames
    /\ [][/\ current_frame' \in Frames
          /\ \A k \in 1 .. Len(dhist'.slots) :
                dhist'.slots[k] = (k - 1) % FRAME_COUNT
          /\ current_frame' = Len(dhist'.slots) % FRAME_COUNT
          /\ current_frame' # current_frame =>
                (/\ dhist'.calls = dhist.calls + 1
                 /\ dloc'.result = "SUCCESS"
                 /\ dloc'.frame = current_frame)]_vars

\* three draws succeeded, one failed, and the next draw uses slot 1
C17_Witness ==
    /\ Len(dhist.slots) = 3
    /\ dhist.failures = 1
    /\ current_frame = 1

\* C18: a call of draw whose acquisition reports suboptimal or out-of-date does
\* not return that to the caller as an error: it replaces the swapchain and
\* acquires again, and the image it records and presents comes from the
\* swapchain that is current.
C18_RecreateAndRetry ==
    [][\A f \in Frames :
          DrawStep(f) =>
             /\ dloc'.acquire # "ERROR_OUT_OF_DATE_KHR"
             /\ dloc'.result # "acquire_next_image" =>
                   dloc'.swapchain = swapchain'.id]_vars


----------------------------------------------------------------------------
(* Properties of the teardown paths *)

\* this step releases object o
Releases(o) == objects[o] = "live" /\ objects'[o] = "destroyed"

\* C19: a memory block is freed only after every buffer and image bound to it
\* was destroyed, and a slot's staging buffer and block are released only when
\* no transfer of the slot is still on the queue.
C19_ResourcesBeforeMemory ==
    [][/\ \A b \in Blocks :
             Releases(b) => \A o \in BoundTo(b) : objects[o] = "destroyed"
       /\ \A f \in Frames :
             (Releases(<<"staging", f, "buffer">>) \/ Releases(<<"staging", f, "alloc">>))
                => ~Pending(f)]_vars

\* C20: once the teardown of Transfer or of Base has ended, however its calls
\* returned, every object it owns has been released.
C20_TeardownCompletes ==
    (tpc.path \in {"Transfer", "Base"} /\ tpc.status \notin {"idle", "running", "unwinding"})
        => \A o \in Released(TeardownOps(tpc.path)) : objects[o] = "destroyed"


----------------------------------------------------------------------------
(* Properties of Transfer::submit on the slots *)

\* the signal values queued against the semaphore of slot g, in queue order
QueuedOn(q, g) ==
    LET OfSlot(e) == e.frame = g IN
    [i \in 1 .. Len(SelectSeq(q, OfSlot)) |-> SelectSeq(q, OfSlot)[i].value]

\* C22: a call of submit on slot f, successful or not, leaves every other
\* slot's staging block, command buffer, semaphore, counter and queued work
\* as they were.
C22_OtherSlotsUntouched ==
    [][\A f \in Frames :
          SubmitStep(f) =>
             \A g \in Frames \ {f} :
                /\ staging'[g] = staging[g]
                /\ command_buffers'[g] = command_buffers[g]
                /\ semaphores'[g] = semaphores[g]
                /\ counts'[g] = counts[g]
                /\ QueuedOn(queue', g) = QueuedOn(queue, g)]_vars

\* a submit on slot 1 returned Ok while the transfer of slot 0 was still queued
C22_Witness ==
    /\ cur = 1
    /\ result.ok
    /\ counts[1] = 1
    /\ counts[0] = 1
    /\ Pending(0)
    /\ Pending(1)

\* this step is a call of submit on slot f that got past "Write to mapped
\* memory": it returned Ok or the error of a later step
Copied(f) ==
    /\ SubmitStep(f)
    /\ result'.err \notin {"TIMEOUT", "ERROR_OUT_OF_DEVICE_MEMORY"}

\* C23: when submit copies the Arena, the slot's staging block holds at least
\* the arena.size() bytes copied; a staging block never gets smaller, and its
\* size changes only in a submit on its slot whose arena.size() was strictly
\* larger.
C23_StagingHoldsArena ==
    [][\A f \in Frames :
          /\ Copied(f) => staging'[f].size >= ArenaSize(arena)
          /\ Len(staging'[f].mem) = staging'[f].size
          /\ staging'[f].size >= staging[f].size
          /\ staging'[f].size # staging[f].size =>
                /\ SubmitStep(f)
                /\ ArenaSize(arena) > staging[f].size
                /\ staging'[f].size = ArenaSize(arena)]_vars

\* slot 0 was grown to 72 bytes by one submit, and a second submit on it, of
\* a new Transaction whose Arena has 8 bytes, left it at 72
C23_Witness ==
    /\ staging[0].size = 72
    /\ staging[1].size = INITIAL_STAGING
    /\ ArenaSize(arena) = 8
    /\ cur = 0
    /\ result.ok
    /\ hist.calls = 2
    /\ hist.ok_submits[0] = 2

\* C25: the command buffer a submit records holds the buffer copies in
\* Transaction order, then the start barriers in one batch, then the image
\* copies in Transaction order, and no end barrier.
C25_NoEndBarrierRecorded ==
    [][\A f \in Frames :
          (SubmitStep(f) /\ command_buffers'[f] # command_buffers[f]) =>
             command_buffers'[f].cmds =
                CopyBufferCmds(transaction) \o StartBarrierCmds(transaction)
                   \o CopyImageCmds(transaction)]_vars

\* C28: the counter of a slot is the value signalled by the slot's last
\* successfully queued submission (the number of them, 0 at the start), and a
\* submit that returns an error leaves the counter as it was.
C28_CounterMatchesQueued ==
    /\ \A f \in Frames : counts[f] = hist.ok_submits[f]
    /\ [][\A f \in Frames :
             (SubmitStep(f) /\ ~result'.ok) => counts'[f] = counts[f]]_vars

----------------------------------------------------------------------------
(* Properties of the creating calls *)

\* C21: when create_buffers, create_images or Staging::new returns an error,
\* no buffer, image or memory block that the call created is still live.
C21_FailedCreateLeavesNothing ==
    (tpc.path \in CreatePaths /\ tpc.status = "Err")
        => \A o \in DOMAIN objects : objects[o] # "live"


----------------------------------------------------------------------------
(* Properties of the frame fence and the acquire semaphore *)

\* C29: the fence of every slot is signalled, or a submission that will signal
\* it is on the graphics queue, also after a draw that returned an error.
C29_FenceSignalledAgain ==
    \A f \in Frames : frames[f].fence \/ GraphicsPending(f)

\* C30: the acquire semaphore of a slot never gets a second signal from an
\* acquisition while an earlier signal has not been waited on by a submission.
C30_AcquireSemaphoreFree ==
    \A f \in Frames : frames[f].acquired <= 1


====
